---- MODULE Spec2Model ----
(***************************************************************************)
(* The APK archive codec of metaphor-apk-rs: the three fixed binary        *)
(* structures (serial.rs), the archive writer (write.rs) and the archive   *)
(* reader (read.rs), over a byte-addressed file.                           *)
(*                                                                         *)
(* A file is the sequence of its bytes.  Offsets are zero-based, as in the  *)
(* code: the byte at offset o is element o + 1 of the sequence.            *)
(***************************************************************************)
EXTENDS Integers, Sequences, FiniteSets, TLC

\* ------------------------------------------------------------------ bounds

\* The writer stages at most MaxFiles entries.
MaxFiles == 2
\* save is called at most MaxSaves times on one writer.
MaxSaves == 2
\* At most MaxLate calls of add or remove follow the first save.
MaxLate == 1

\* ------------------------------------------------------- program constants

\* size_of::<Header>()
HeaderSize == 16
\* size_of::<FileHeader>()
FileHeaderSize == 288
\* size_of::<DataHeader>()
DataHeaderSize == 48
\* FileHeader.filename: [i8; 0x100]
NameFieldSize == 256
\* "align to nearest 0x10"
BlockAlign == 16
APK_MAGIC == <<80, 65, 67, 75, 0, 0>>

\* 0x305a5a5a
APK_DATA_MAGIC == 811227738

CompressionType == {"ZLib", "LZ4", "ZStandard"}

\* ------------------------------------------------------------------- bytes

Rep(b, n) == [k \in 1..n |-> b]

\* `v as u32`, then the four bytes of the value in memory (little-endian).
\* Every size, count and offset of the model is far below 2^31, so the cast
\* never truncates.
LE32(v) == [k \in 1..4 |-> (v \div (256 ^ (k - 1))) % 256]

\* `v as u16`, little-endian.
LE16(v) == [k \in 1..2 |-> ((v % 65536) \div (256 ^ (k - 1))) % 256]

\* The u32 stored at zero-based offset off of the byte sequence b.
U32At(b, off) ==
    b[off + 1] + 256 * b[off + 2] + 65536 * b[off + 3] + 16777216 * b[off + 4]

\* ------------------------------------------------------------ stream (file)

EmptyFile == <<>>

\* Write::write at cursor pos: bytes overwrite what is there, a write past the
\* end extends the file and the gap left by an earlier seek reads as zeros.
WriteAt(f, pos, bytes) ==
    LET n == Len(bytes)
        pre == IF pos <= Len(f)
               THEN SubSeq(f, 1, pos)
               ELSE f \o Rep(0, pos - Len(f))
        post == IF pos + n < Len(f)
                THEN SubSeq(f, pos + n + 1, Len(f))
                ELSE <<>>
    IN  IF n = 0 THEN f ELSE pre \o bytes \o post

ByteAt(f, o) == f[o + 1]

\* Read::read_exact of n bytes at offset pos: fails when the file ends first.
ReadExact(f, pos, n) ==
    IF pos + n > Len(f)
    THEN [ok |-> FALSE, bytes |-> <<>>]
    ELSE [ok |-> TRUE, bytes |-> SubSeq(f, pos + 1, pos + n)]

\* ---------------------------------------------------------------- serial.rs

\* Header::new(count).to_bytes(): magic, field6 = 1, count, reserve = 0.
HeaderBytes(count) == APK_MAGIC \o LE16(1) \o LE32(count) \o LE32(0)

\* Header::check_magic on the 16 bytes of a header.
HeaderCheckMagic(b) == SubSeq(b, 1, 6) = APK_MAGIC

\* FileHeader::new(name, file_size, offset).to_bytes(): the name copied into a
\* zeroed 256-byte field (name.len() bytes, no terminator of its own), then
\* file_size + size_of::<DataHeader>(), five zero words, offset, a zero word.
\* Defined for names of at most 256 bytes: a longer one overruns the field.
FileHeaderBytes(name, file_size, offset) ==
    [k \in 1..NameFieldSize |-> IF k <= Len(name) THEN name[k] ELSE 0]
        \o LE32(file_size + DataHeaderSize)
        \o Rep(0, 20)
        \o LE32(offset)
        \o LE32(0)

\* FileHeader::get_filename: the bytes from the start of the struct up to the
\* first NUL (CStr::from_ptr), which for an unterminated name field runs on
\* into file_size.
GetFilename(b) ==
    LET stops == {k \in 1..Len(b) : b[k] = 0}
        first == IF stops = {} THEN Len(b) + 1
                 ELSE CHOOSE k \in stops : \A j \in stops : k <= j
    IN  SubSeq(b, 1, first - 1)

FileSizeOf(b) == U32At(b, 256)

OffsetOf(b) == U32At(b, 280)

\* The algorithm tag kept in the data header's bitfield word.  0x010001 is the
\* word serial.rs writes; the other two values stand for the other algorithms.
CompressTag(t) ==
    CASE t = "LZ4" -> 65537
      [] t = "ZLib" -> 1
      [] t = "ZStandard" -> 131073

\* header.compress_type, read back from the bitfield word.
CompressTypeOf(tag) ==
    CHOOSE t \in CompressionType : CompressTag(t) = tag

\* DataHeader::new(cmp_size, cmp_type, dcmp_size).to_bytes().  The struct is
\* ten words (40 bytes) aligned to 16: the last 8 bytes are padding the
\* constructor never writes, so their value is whatever the build left there
\* (the parameter fill).
DataHeaderBytes(cmp_size, cmp_type, dcmp_size, fill) ==
    LE32(APK_DATA_MAGIC)
        \o LE32(CompressTag(cmp_type))
        \o LE32(0)
        \o LE32(dcmp_size)
        \o LE32(cmp_size + DataHeaderSize)
        \o Rep(0, 12)
        \o LE32(cmp_size)
        \o LE32(DataHeaderSize)
        \o Rep(fill, 8)

\* DataHeader::check_magic on the 48 bytes of a data header.
DataHeaderCheckMagic(b) == U32At(b, 0) = APK_DATA_MAGIC

\* ------------------------------------------------------ compression engine
\* The three libraries are modelled by their framing: a header that identifies
\* the format and carries what the decoder needs to find the end of the data,
\* then the literal bytes (and a trailer for zlib).  The three formats differ,
\* so data compressed by one is not accepted by another.

RECURSIVE SumBytes(_)
SumBytes(s) == IF s = <<>> THEN 0 ELSE Head(s) + SumBytes(Tail(s))

\* flate2::write::ZlibEncoder: CMF/FLG, one stored block, checksum.
ZlibCompress(file) ==
    <<120, 1, Len(file)>> \o file \o <<(1 + SumBytes(file)) % 256>>

\* lz4 block: a token whose high nibble is the literal length, the literals.
Lz4Compress(file) == <<16 * Len(file)>> \o file

\* zstd::encode_all: frame magic, frame content size, one raw block.
ZstdCompress(file) == <<40, 181, 47, 253, Len(file)>> \o file

\* A faulty Compress that runs zlib whatever the entry's algorithm, while the
\* data header still records the entry's own; C1 tells it from Compress.
CompressZlibOnly(cmp_type, file) == ZlibCompress(file)

\* write.rs: the match on entry.compression_type.
Compress(cmp_type, file) ==
    CASE cmp_type = "ZLib" -> ZlibCompress(file)
      [] cmp_type = "LZ4" -> Lz4Compress(file)
      [] cmp_type = "ZStandard" -> ZstdCompress(file)

ZlibValid(c) == Len(c) >= 4 /\ c[1] = 120 /\ c[2] = 1 /\ Len(c) = c[3] + 4

Lz4Valid(c) == Len(c) >= 1 /\ c[1] % 16 = 0 /\ Len(c) = (c[1] \div 16) + 1

ZstdValid(c) ==
    Len(c) >= 5 /\ SubSeq(c, 1, 4) = <<40, 181, 47, 253>> /\ Len(c) = c[5] + 5

\* ZlibDecoder::read_exact(decompressed): fills the n-byte buffer from the
\* decoded stream and fails only when the stream ends before the buffer is
\* full; decoded bytes beyond the buffer are never asked for.
ZlibReadExact(compressed, n) ==
    IF ~ZlibValid(compressed) \/ compressed[3] < n
    THEN [ok |-> FALSE, out |-> <<>>]
    ELSE [ok |-> TRUE, out |-> SubSeq(compressed, 4, 3 + n)]

\* lz4 decompress_into / decompress_to_buffer: fails when the n-byte buffer is
\* too small, else writes the decoded bytes at its start and returns their
\* count, which decompress_raw drops.  The rest of the buffer keeps the
\* contents it had: never initialised (the parameter fill).
Lz4DecompressInto(compressed, n, fill) ==
    IF ~Lz4Valid(compressed) \/ Len(compressed) - 1 > n
    THEN [ok |-> FALSE, out |-> <<>>]
    ELSE [ok |-> TRUE,
          out |-> SubSeq(compressed, 2, Len(compressed))
                      \o Rep(fill, n - (Len(compressed) - 1))]

\* zstd_safe::decompress: as for lz4, the count returned is dropped.
ZstdDecompress(compressed, n, fill) ==
    IF ~ZstdValid(compressed) \/ Len(compressed) - 5 > n
    THEN [ok |-> FALSE, out |-> <<>>]
    ELSE [ok |-> TRUE,
          out |-> SubSeq(compressed, 6, Len(compressed))
                      \o Rep(fill, n - (Len(compressed) - 5))]

\* read.rs decompress_raw(header, compressed, decompressed), the buffer being
\* n = header.decompressed bytes long.
DecompressRaw(cmp_type, compressed, n, fill) ==
    CASE cmp_type = "ZLib" -> ZlibReadExact(compressed, n)
      [] cmp_type = "LZ4" -> Lz4DecompressInto(compressed, n, fill)
      [] cmp_type = "ZStandard" -> ZstdDecompress(compressed, n, fill)

\* ------------------------------------------------------------------ inputs

\* A name is kept as [c, n], the string of n bytes c; NameBytes is the string.
NameBytes(name) == Rep(name.c, name.n)

NameA == [c |-> 97, n |-> 1]
NameB == [c |-> 98, n |-> 1]
\* The longest name the 256-byte field holds with its terminator.
Name255 == [c |-> 98, n |-> NameFieldSize - 1]
\* The shortest name that leaves no room for the terminator.
Name256 == [c |-> 99, n |-> NameFieldSize]

Names == {NameA, NameB}

\* The names on either side of the limit of the name field.
BoundaryNames == {Name255, Name256}

Payloads == {<<7>>, Rep(9, 12)}

\* Values an uninitialised byte may hold.
Uninit == {0, 204}

\* Paths handed to add_external_file: file_name is Option<name> (<<name>> or
\* <<>> for a path ending in ".."), exists is std::fs::exists, content is
\* what File::open then reads.
Paths ==
    {[dir |-> 1, file_name |-> <<NameA>>, exists |-> TRUE, content |-> <<7>>],
     [dir |-> 2, file_name |-> <<NameA>>, exists |-> TRUE, content |-> Rep(9, 12)],
     [dir |-> 3, file_name |-> <<NameA>>, exists |-> FALSE, content |-> <<>>],
     [dir |-> 1, file_name |-> <<>>, exists |-> TRUE, content |-> <<>>]}

\* ---------------------------------------------------------------- write.rs

\* ApkWriterEntry::new
ApkWriterEntry(index, compression_type, data) ==
    [index |-> index, compression_type |-> compression_type, data |-> data]

\* A faulty AddFile that inserts without looking for the name first, so a
\* second add replaces the staged entry; C4 tells it from AddFile.
AddFileOverwriting(fs, name, cmp_type, stream) ==
    (name :> ApkWriterEntry(Cardinality(DOMAIN fs), cmp_type, stream)) @@ fs

\* The files map after add_*_with_compression(name, cmp_type, stream): a name
\* already present leaves it alone, a new one gets index files.len().
AddFile(fs, name, cmp_type, stream) ==
    IF name \in DOMAIN fs
    THEN fs
    ELSE (name :> ApkWriterEntry(Cardinality(DOMAIN fs), cmp_type, stream)) @@ fs

\* The result of add_internal_file_with_compression.
AddResult(fs, name) ==
    IF name \in DOMAIN fs THEN "FileAlreadyExists" ELSE "Ok"

\* The result of add_external_file_with_compression: the path is checked,
\* then its file name, then the name against the staged ones.
AddExternalResult(fs, path) ==
    IF ~path.exists THEN "FilePathMissing"
    ELSE IF path.file_name = <<>> THEN "FileNameMissing"
    ELSE AddResult(fs, path.file_name[1])

\* HashMap::remove
RemoveFile(fs, name) == [n \in (DOMAIN fs) \ {name} |-> fs[n]]

\* The orders `for (name, entry) in &mut self.files` may visit the map in.
IterationOrders(fs) ==
    {o \in [1..Cardinality(DOMAIN fs) -> DOMAIN fs] :
        \A a, b \in DOMAIN o : a # b => o[a] # o[b]}

\* A faulty PlaceAll that pushes the entries as the map yields them instead
\* of placing each at its index; C2 tells it from PlaceAll.
PlaceInIterationOrder(fs, ord, vec) ==
    [panic |-> FALSE, vec |-> [k \in 1..Len(ord) |-> <<ord[k]>>]]

\* save: `files[index] = Some((name, entry))` for the entries in the order
\* ord, on a Vec of files.len() None: an index past the end panics.
RECURSIVE PlaceAll(_, _, _)
PlaceAll(fs, ord, vec) ==
    IF ord = <<>>
    THEN [panic |-> FALSE, vec |-> vec]
    ELSE LET name == Head(ord)
             index == fs[name].index
         IN  IF index >= Len(vec)
             THEN [panic |-> TRUE, vec |-> vec]
             ELSE PlaceAll(fs, Tail(ord), [vec EXCEPT ![index + 1] = <<name>>])

\* files.iter_mut().filter_map(|e| e.as_mut()): the names of the Some slots.
FilterSome(vec) ==
    LET some == SelectSeq(vec, LAMBDA e : e # <<>>)
    IN  [k \in 1..Len(some) |-> some[k][1]]

\* A faulty InitialPointer that forgets the archive header, so the first
\* block lands on the end of the table; C10 tells it from InitialPointer.
InitialPointerNoHeader(n) == n * FileHeaderSize

\* save: the initial `pointer`, the offset of the first data block.
InitialPointer(n) == (n * FileHeaderSize) + HeaderSize

\* cmp_pad_size = (cmp_real_size + 0xf) & !0xf
PadSize(cmp_real_size) ==
    ((cmp_real_size + (BlockAlign - 1)) \div BlockAlign) * BlockAlign

\* A faulty PaddingBytes without the test for an aligned size, writing 16
\* zero bytes after an aligned payload; C8 tells it from PaddingBytes.
PaddingBytesAlways(cmp_real_size) ==
    Rep(0, BlockAlign - (cmp_real_size % BlockAlign))

\* save: `&blank[..0x10 - (cmp_real_size % 0x10)]` when the size is unaligned.
PaddingBytes(cmp_real_size) ==
    IF cmp_real_size % BlockAlign # 0
    THEN Rep(0, BlockAlign - (cmp_real_size % BlockAlign))
    ELSE <<>>

\* save: `pointer += cmp_pad_size + size_of::<DataHeader>()`
NextPointer(ptr, cmp_pad_size) == ptr + cmp_pad_size + DataHeaderSize

\* save: the cursor after entry i, SeekFrom::Start(next_file_header).
NextFileHeader(k) == HeaderSize + ((k + 1) * FileHeaderSize)

\* save, one entry: its descriptor at the cursor, then at `pointer` the data
\* header, the compressed bytes and the zero padding.
WriteEntry(f, cursor, ptr, name, cmp_type, file, fill) ==
    LET compressed == Compress(cmp_type, file)
        cmp_real_size == Len(compressed)
        cmp_pad_size == PadSize(cmp_real_size)
        f1 == WriteAt(f, cursor,
                      FileHeaderBytes(NameBytes(name), cmp_pad_size, ptr))
        f2 == WriteAt(f1, ptr,
                      DataHeaderBytes(cmp_real_size, cmp_type, Len(file), fill))
        f3 == WriteAt(f2, ptr + DataHeaderSize, compressed)
    IN  WriteAt(f3, ptr + DataHeaderSize + cmp_real_size,
                PaddingBytes(cmp_real_size))

\* ----------------------------------------------------------------- read.rs

\* A FileHeader of the reader's table, as the three things read from it: its
\* bytes stay as read, so these are what every later use of it sees.
FileHeaderOf(b) ==
    [filename |-> GetFilename(b), file_size |-> FileSizeOf(b),
     offset |-> OffsetOf(b)]

\* ApkReader::read: the 16-byte header, then header.count descriptors read as
\* one block.  The magic is not looked at.
ReaderRead(f) ==
    LET h == ReadExact(f, 0, HeaderSize)
    IN  IF ~h.ok
        THEN [ok |-> FALSE, files |-> <<>>]
        ELSE LET count == U32At(h.bytes, 8)
                 t == ReadExact(f, HeaderSize, count * FileHeaderSize)
             IN  IF ~t.ok
                 THEN [ok |-> FALSE, files |-> <<>>]
                 ELSE [ok |-> TRUE,
                       files |-> [k \in 1..count |->
                           FileHeaderOf(SubSeq(t.bytes,
                               (k - 1) * FileHeaderSize + 1, k * FileHeaderSize))]]

\* header.compress_type of a data header read from the file.  A word that is
\* no algorithm's tag makes the value of the field undefined: junk.
HeaderCompressType(dh, junk) ==
    IF \E t \in CompressionType : CompressTag(t) = U32At(dh, 4)
    THEN CompressTypeOf(U32At(dh, 4))
    ELSE junk

\* ApkReader::get_file_inner: seek to f.offset, read the data header, read
\* header.compressed bytes, decompress into header.decompressed bytes.  The
\* data magic is not looked at.
GetFileInner(f, fh, fill, junk) ==
    LET dh == ReadExact(f, fh.offset, DataHeaderSize)
    IN  IF ~dh.ok
        THEN [res |-> "IoError", val |-> <<>>]
        ELSE LET c == ReadExact(f, fh.offset + DataHeaderSize,
                                U32At(dh.bytes, 32))
             IN  IF ~c.ok
                 THEN [res |-> "IoError", val |-> <<>>]
                 ELSE LET d == DecompressRaw(HeaderCompressType(dh.bytes, junk),
                                             c.bytes, U32At(dh.bytes, 12), fill)
                      IN  IF d.ok
                          THEN [res |-> "Ok", val |-> d.out]
                          ELSE [res |-> "CompressionError", val |-> <<>>]

\* ApkReader::get_file: the first descriptor whose name matches.
GetFile(f, fhs, name, fill, junk) ==
    LET hits == {k \in 1..Len(fhs) : fhs[k].filename = name}
    IN  IF hits = {}
        THEN [res |-> "FileNotFound", val |-> <<>>]
        ELSE GetFileInner(f, fhs[CHOOSE k \in hits : \A j \in hits : k <= j],
                          fill, junk)

\* ApkReader::get_all_files: every descriptor in table order into a map; the
\* first failure ends the call with that error.
RECURSIVE GetAllFrom(_, _, _, _, _, _)
GetAllFrom(f, fhs, k, acc, fill, junk) ==
    IF k > Len(fhs)
    THEN [res |-> "Ok", val |-> acc]
    ELSE LET r == GetFileInner(f, fhs[k], fill, junk)
         IN  IF r.res # "Ok"
             THEN [res |-> r.res, val |-> <<>>]
             ELSE GetAllFrom(f, fhs, k + 1,
                             (fhs[k].filename :> r.val) @@ acc, fill, junk)

GetAllFiles(f, fhs, fill, junk) == GetAllFrom(f, fhs, 1, <<>>, fill, junk)

\* ApkReader::create_file_list: each name followed by '\n'.
RECURSIVE CreateFileList(_)
CreateFileList(fhs) ==
    IF fhs = <<>>
    THEN <<>>
    ELSE Head(fhs).filename \o <<10>> \o CreateFileList(Tail(fhs))

\* ------------------------------------------------------------------- state

VARIABLES
    disk,       \* the file behind the output stream, which the reader opens
    files,      \* ApkWriter.files: name -> ApkWriterEntry
    owner,      \* ApkWriter.owner: the cursor of the output stream
    pc,         \* "idle", "saving" (inside save's loop), "panicked" or
                \* "dropped" (the writer is gone, its stream flushed)
    pending,    \* save: the names left by filter_map, in slot order
    i,          \* save: the enumerate() counter
    pointer,    \* save: `pointer`
    padding,    \* what the build leaves in the padding of a DataHeader
    late,       \* the calls of add and remove since the first save
    saves,      \* the number of calls of save that returned Ok
    rd,         \* the ApkReader: whether one is open, and its files table
    ret,        \* the last call and what it returned
    staged,     \* history: the entries added and not removed, in add order
    archived,   \* history: staged as it was when the last save began
    tamper      \* history: the corruption applied to the file, if any

vars ==
    <<files, owner, disk, pc, pending, i, pointer, padding, late, saves, rd,
      ret, staged, archived, tamper>>

\* The variables of the save in progress.
saveVars == <<pending, i, pointer>>

\* The variables no writer call changes.
readerVars == <<padding, rd, tamper>>

\* The variables no reader call changes.
writerVars ==
    <<files, owner, pc, pending, i, pointer, padding, late, saves, staged,
      archived>>

\* The argument recorded for a call that has no name.
NoName == [c |-> 0, n |-> 0]

Ret(op, arg, res, val) == [op |-> op, arg |-> arg, res |-> res, val |-> val]

NoReader == [open |-> FALSE, files |-> <<>>]

NoArchive == [entries |-> <<>>, dense |-> TRUE]

NoTamper == [what |-> "none", entry |-> 0, at |-> 0]

\* ApkWriter::setup: File::create gives an empty file, the map is empty.
Init ==
    /\ files = <<>>
    /\ owner = 0
    /\ disk = EmptyFile
    /\ pc = "idle"
    /\ pending = <<>>
    /\ i = 0
    /\ pointer = 0
    /\ padding \in Uninit
    /\ late = 0
    /\ saves = 0
    /\ rd = NoReader
    /\ ret = Ret("setup", NoName, "Ok", <<>>)
    /\ staged = <<>>
    /\ archived = NoArchive
    /\ tamper = NoTamper

StagedEntry(name, cmp_type, bytes) ==
    [name |-> name, compression_type |-> cmp_type, bytes |-> bytes]

\* The staged indices are exactly 0 .. files.len() - 1.
DenseIndices(fs) ==
    {fs[n].index : n \in DOMAIN fs} = 0 .. (Cardinality(DOMAIN fs) - 1)

\* A call of add or remove is possible: the writer is not inside save, and
\* the calls that follow a save are within the bound.
CanStage == pc = "idle" /\ (saves = 0 \/ late < MaxLate)

LateAfter == IF saves = 0 THEN 0 ELSE late + 1

\* add_internal_file_with_compression(name, cmp_type, stream)
AddInternal(name, cmp_type, stream) ==
    /\ CanStage
    /\ name \in DOMAIN files \/ Cardinality(DOMAIN files) < MaxFiles
    /\ files' = AddFile(files, name, cmp_type, stream)
    /\ ret' = Ret("add", name, AddResult(files, name), <<>>)
    /\ staged' = IF AddResult(files, name) = "Ok"
                 THEN Append(staged, StagedEntry(name, cmp_type, stream))
                 ELSE staged
    /\ late' = LateAfter
    /\ UNCHANGED <<owner, disk, pc, saveVars, saves, archived, readerVars>>

\* add_external_file_with_compression(cmp_type, path)
AddExternal(path, cmp_type) ==
    LET res == AddExternalResult(files, path)
        checked == res \in {"Ok", "FileAlreadyExists"}
    IN  /\ CanStage
        /\ res # "Ok" \/ Cardinality(DOMAIN files) < MaxFiles
        /\ files' = IF checked
                    THEN AddFile(files, path.file_name[1], cmp_type, path.content)
                    ELSE files
        /\ ret' = Ret("add", IF checked THEN path.file_name[1] ELSE NoName, res,
                      <<>>)
        /\ staged' = IF res = "Ok"
                     THEN Append(staged, StagedEntry(path.file_name[1], cmp_type,
                                                     path.content))
                     ELSE staged
        /\ late' = LateAfter
        /\ UNCHANGED <<owner, disk, pc, saveVars, saves, archived, readerVars>>

\* remove_file(name)
Remove(name) ==
    /\ CanStage
    /\ files' = RemoveFile(files, name)
    /\ ret' = Ret("remove", name,
                  IF name \in DOMAIN files THEN "Some" ELSE "None", <<>>)
    /\ staged' = SelectSeq(staged, LAMBDA e : e.name # name)
    /\ late' = LateAfter
    /\ UNCHANGED <<owner, disk, pc, saveVars, saves, archived, readerVars>>

\* save, up to its loop: the header at the cursor, the initial pointer, the
\* Vec of slots filled from the map in the order ord.
SaveBegin(ord) ==
    LET n == Cardinality(DOMAIN files)
        placed == PlaceAll(files, ord, Rep(<<>>, n))
    IN  /\ pc = "idle"
        /\ saves < MaxSaves
        /\ disk' = WriteAt(disk, owner, HeaderBytes(n))
        /\ owner' = owner + HeaderSize
        /\ pointer' = InitialPointer(n)
        /\ pc' = IF placed.panic THEN "panicked" ELSE "saving"
        /\ pending' = IF placed.panic THEN <<>> ELSE FilterSome(placed.vec)
        /\ i' = 0
        /\ ret' = Ret("save", NoName, IF placed.panic THEN "Panic" ELSE "Running",
                      <<>>)
        /\ archived' = [entries |-> staged, dense |-> DenseIndices(files)]
        /\ UNCHANGED <<files, late, saves, staged, readerVars>>

\* save, one turn of its loop: the entry's source read to its end, compressed
\* and written, the pointer advanced, the cursor put on the next descriptor.
SaveEntry ==
    /\ pc = "saving"
    /\ i < Len(pending)
    /\ LET name == pending[i + 1]
           entry == files[name]
           file == entry.data
       IN  /\ disk' = WriteEntry(disk, owner, pointer, name,
                                 entry.compression_type, file, padding)
           /\ files' = [files EXCEPT ![name].data = <<>>]
           /\ pointer' = NextPointer(pointer,
                  PadSize(Len(Compress(entry.compression_type, file))))
    /\ owner' = NextFileHeader(i)
    /\ i' = i + 1
    /\ UNCHANGED <<pc, pending, late, saves, ret, staged, archived, readerVars>>

\* save: the loop is over, Ok(()).
SaveEnd ==
    /\ pc = "saving"
    /\ i = Len(pending)
    /\ pc' = "idle"
    /\ saves' = saves + 1
    /\ ret' = Ret("save", NoName, "Ok", <<>>)
    /\ UNCHANGED <<files, owner, disk, saveVars, late, staged, archived,
                   readerVars>>

\* The writer goes out of scope: BufWriter's drop flushes the stream, the map
\* and its byte sources are freed.
Drop ==
    /\ pc = "idle"
    /\ pc' = "dropped"
    /\ files' = <<>>
    /\ owner' = 0
    /\ pending' = <<>>
    /\ i' = 0
    /\ pointer' = 0
    /\ late' = 0
    /\ staged' = <<>>
    /\ ret' = Ret("drop", NoName, "Ok", <<>>)
    /\ UNCHANGED <<disk, saves, archived, readerVars>>

\* The archive is read once its writer is gone or has panicked.
Readable == pc \in {"dropped", "panicked"}

\* ApkReader::read(path)
Read ==
    /\ Readable
    /\ LET r == ReaderRead(disk)
       IN  /\ rd' = IF r.ok THEN [open |-> TRUE, files |-> r.files] ELSE NoReader
           /\ ret' = Ret("read", NoName, IF r.ok THEN "Ok" ELSE "IoError", <<>>)
    /\ UNCHANGED <<disk, writerVars, tamper>>

\* get_file(name), for each value the uninitialised bytes it may meet can
\* have.
ReaderGetFile(name) ==
    /\ rd.open
    /\ \E r \in {GetFile(disk, rd.files, NameBytes(name), fill, junk) :
                     fill \in Uninit, junk \in CompressionType} :
           ret' = Ret("get_file", name, r.res, r.val)
    /\ UNCHANGED <<disk, writerVars, rd, tamper>>

\* get_all_files(), likewise.
ReaderGetAllFiles ==
    /\ rd.open
    /\ \E r \in {GetAllFiles(disk, rd.files, fill, junk) :
                     fill \in Uninit, junk \in CompressionType} :
           ret' = Ret("get_all_files", NoName, r.res, r.val)
    /\ UNCHANGED <<disk, writerVars, rd, tamper>>

\* create_file_list()
ReaderCreateFileList ==
    /\ rd.open
    /\ ret' = Ret("create_file_list", NoName, "Ok", CreateFileList(rd.files))
    /\ UNCHANGED <<disk, writerVars, rd, tamper>>

\* ------------------------------------------------- a corrupted archive
\* The file is changed behind the program's back, once, after its writer is
\* gone and before a reader opens it.

\* A byte that differs from b.
Corrupted(b) == 255 - b

CanTamper == pc = "dropped" /\ saves = 1 /\ ~rd.open /\ tamper = NoTamper

\* The offset of the data block of descriptor e (1-based) of the file.
BlockOffset(f, e) == ReaderRead(f).files[e].offset

\* Byte k (0..5) of the archive magic is corrupted.
CorruptMagic(k) ==
    /\ CanTamper
    /\ disk' = WriteAt(disk, k, <<Corrupted(ByteAt(disk, k))>>)
    /\ tamper' = [what |-> "magic", entry |-> 0, at |-> k]
    /\ UNCHANGED <<writerVars, rd, ret>>

\* Byte k (0..3) of the magic of the data block of descriptor e is corrupted.
CorruptDataMagic(e, k) ==
    /\ CanTamper
    /\ e <= Len(archived.entries)
    /\ LET at == BlockOffset(disk, e) + k
       IN  disk' = WriteAt(disk, at, <<Corrupted(ByteAt(disk, at))>>)
    /\ tamper' = [what |-> "data_magic", entry |-> e, at |-> k]
    /\ UNCHANGED <<writerVars, rd, ret>>

\* The decompressed size recorded in the data header of descriptor e is
\* changed by delta, so that the payload decompresses to more (delta < 0) or
\* fewer (delta > 0) bytes than recorded.
CorruptDecompressed(e, delta) ==
    /\ CanTamper
    /\ e <= Len(archived.entries)
    /\ LET at == BlockOffset(disk, e)
           dh == ReadExact(disk, at, DataHeaderSize).bytes
       IN  /\ U32At(dh, 12) + delta >= 0
           /\ disk' = WriteAt(disk, at + 12, LE32(U32At(dh, 12) + delta))
    /\ tamper' = [what |-> "decompressed", entry |-> e, at |-> delta]
    /\ UNCHANGED <<writerVars, rd, ret>>

\* ------------------------------------------------------- specifications

WriterNext(names, paths) ==
    \/ \E name \in names, t \in CompressionType, d \in Payloads :
           AddInternal(name, t, d)
    \/ \E p \in paths, t \in CompressionType : AddExternal(p, t)
    \/ \E name \in names : Remove(name)
    \/ \E ord \in IterationOrders(files) : SaveBegin(ord)
    \/ SaveEntry
    \/ SaveEnd
    \/ Drop

ReaderNext(names) ==
    \/ Read
    \/ \E name \in names : ReaderGetFile(name)
    \/ ReaderGetAllFiles
    \/ ReaderCreateFileList

\* A writer used in any way, then a reader on the file it left.
Next == WriterNext(Names, Paths) \/ ReaderNext(Names)

Spec == Init /\ [][Next]_vars

\* The same program fed names of 255 and of 256 bytes, and paths that
\* add_external_file turns down.
NextBoundary ==
    \/ WriterNext(BoundaryNames, {p \in Paths : AddExternalResult(<<>>, p) # "Ok"})
    \/ ReaderNext(BoundaryNames)

SpecBoundary == Init /\ [][NextBoundary]_vars

\* A writer that adds entries and saves once; the file is then corrupted in
\* one place and read.
NextTamper ==
    \/ \E name \in Names, t \in CompressionType, d \in Payloads :
           saves = 0 /\ AddInternal(name, t, d)
    \/ \E ord \in IterationOrders(files) : saves = 0 /\ SaveBegin(ord)
    \/ SaveEntry
    \/ SaveEnd
    \/ Drop
    \/ \E k \in 0..5 : CorruptMagic(k)
    \/ \E e \in 1..MaxFiles, k \in 0..3 : CorruptDataMagic(e, k)
    \/ \E e \in 1..MaxFiles, delta \in {-1, 1} : CorruptDecompressed(e, delta)
    \/ Read
    \/ \E name \in Names : ReaderGetFile(name)
    \/ ReaderGetAllFiles

SpecTamper == Init /\ [][NextTamper]_vars

\* ------------------------------------------------------------------ claims

\* The descriptors of the file, as ApkReader::read decodes them.
Table(f) == ReaderRead(f).files

\* The 48 bytes of the data header that descriptor fh points at.
BlockHeader(f, fh) == ReadExact(f, fh.offset, DataHeaderSize).bytes

\* The file holds the archive of one save of entries whose indices were
\* 0 .. n-1 (no entry but the last added was removed), and has not been
\* touched since.
Packed == saves = 1 /\ archived.dense /\ tamper = NoTamper

\* Every archived name leaves room for the terminator.
NamesFit == \A k \in DOMAIN archived.entries :
                archived.entries[k].name.n < NameFieldSize

\* The name -> bytes mapping of the entries.
ExpectedMap(entries) ==
    [nm \in {NameBytes(entries[k].name) : k \in DOMAIN entries} |->
        LET k == CHOOSE j \in DOMAIN entries : NameBytes(entries[j].name) = nm
        IN  entries[k].bytes]

\* The names of the entries, each followed by '\n'.
RECURSIVE ExpectedList(_)
ExpectedList(entries) ==
    IF entries = <<>>
    THEN <<>>
    ELSE NameBytes(Head(entries).name) \o <<10>> \o ExpectedList(Tail(entries))

\* C1: entries with unique names of fewer than 256 bytes, added, saved and
\* read back with get_all_files, come back as exactly the name -> bytes
\* mapping that was added, whatever the algorithm of each.
C1_RoundTrip ==
    (ret.op = "get_all_files" /\ pc = "dropped" /\ Packed /\ NamesFit)
        => /\ ret.res = "Ok"
           /\ ret.val = ExpectedMap(archived.entries)

\* C1 happens: two entries of different algorithms were read back.
C1_Witness ==
    /\ ret.op = "get_all_files" /\ pc = "dropped" /\ Packed /\ NamesFit
    /\ Len(archived.entries) = 2
    /\ archived.entries[1].compression_type = "ZLib"
    /\ archived.entries[2].compression_type = "ZStandard"
    /\ archived.entries[1].bytes # archived.entries[2].bytes

\* C1 happens for the third algorithm too.
C1_WitnessLZ4 ==
    /\ ret.op = "get_all_files" /\ pc = "dropped" /\ Packed /\ NamesFit
    /\ Len(archived.entries) = 2
    /\ archived.entries[1].compression_type = "LZ4"

\* C2: create_file_list on the reopened archive lists the names in the order
\* they were added, whatever the algorithms and whatever order the map was
\* iterated in.
C2_OrderPreserved ==
    (ret.op = "create_file_list" /\ pc = "dropped" /\ Packed /\ NamesFit)
        => ret.val = ExpectedList(archived.entries)

\* C2 happens: two entries of different algorithms, added in the order B, A.
C2_Witness ==
    /\ ret.op = "create_file_list" /\ pc = "dropped" /\ Packed /\ NamesFit
    /\ Len(archived.entries) = 2
    /\ archived.entries[1].name = NameB
    /\ archived.entries[2].name = NameA
    /\ archived.entries[1].compression_type # archived.entries[2].compression_type

\* C3: after any adds and removes, the first save does not panic, and when it
\* returns the header counts the staged entries and the table holds one
\* descriptor for each, in the order they were added.
C3_SaveKeepsStaged ==
    /\ (pc = "panicked" => saves # 0)
    /\ (ret.op = "save" /\ ret.res = "Ok" /\ saves = 1)
           => /\ U32At(disk, 8) = Len(staged)
              /\ Len(Table(disk)) = Len(staged)
              /\ \A k \in DOMAIN staged :
                     Table(disk)[k].filename = NameBytes(staged[k].name)

\* C4: an add of a name already staged returns FileAlreadyExists and changes
\* neither the staged entries nor the output stream.
C4_DuplicateRejected ==
    [][(ret'.op = "add" /\ ret'.arg \in DOMAIN files)
          => /\ ret'.res = "FileAlreadyExists"
             /\ files' = files
             /\ staged' = staged
             /\ disk' = disk
             /\ owner' = owner]_vars

\* C4 happens: an add was turned down while an entry was staged.
C4_Witness ==
    /\ ret.op = "add" /\ ret.res = "FileAlreadyExists"
    /\ ret.arg \in DOMAIN files

\* C5: add turns down a name of 256 bytes or more, so none is staged and none
\* reaches FileHeader::new in save.
C5_NameBoundary ==
    /\ (ret.op = "add" /\ ret.arg.n >= NameFieldSize) => ret.res # "Ok"
    /\ \A name \in DOMAIN files : name.n < NameFieldSize
    /\ \A k \in DOMAIN pending : pending[k].n < NameFieldSize

\* C6: with a byte of the archive magic corrupted, read fails and leaves no
\* reader; with a byte of a data block's magic corrupted, get_file of that
\* entry fails.
C6_MagicRejected ==
    /\ (tamper.what = "magic" /\ ret.op = "read")
           => (ret.res # "Ok" /\ ~rd.open)
    /\ (tamper.what = "data_magic" /\ ret.op = "get_file"
            /\ ret.arg = archived.entries[tamper.entry].name)
           => ret.res # "Ok"

\* C7: get_file of an entry whose payload decompresses to more or to fewer
\* bytes than its data header records fails with a compression error.
C7_LengthContract ==
    (tamper.what = "decompressed" /\ ret.op = "get_file"
         /\ ret.arg = archived.entries[tamper.entry].name)
        => ret.res = "CompressionError"

\* The zero bytes that follow a block of compressed_len bytes.
PadLen(compressed_len) == (BlockAlign - (compressed_len % BlockAlign)) % BlockAlign

\* The offset just past the padding of the block of descriptor fh.
BlockEnd(f, fh) ==
    LET c == U32At(BlockHeader(f, fh), 32)
    IN  fh.offset + DataHeaderSize + c + PadLen(c)

\* The blocks of the saved archive, found through its table: each starts at a
\* multiple of 16 and is followed by exactly PadLen zero bytes, after which
\* the next block starts (or the file ends).
AlignedOnDisk ==
    (Packed /\ pc \in {"idle", "dropped"})
        => LET t == Table(disk)
           IN  \A k \in DOMAIN t :
                   LET c == U32At(BlockHeader(disk, t[k]), 32)
                       from == t[k].offset + DataHeaderSize + c
                   IN  /\ t[k].offset % BlockAlign = 0
                       /\ SubSeq(disk, from + 1, from + PadLen(c)) = Rep(0, PadLen(c))
                       /\ BlockEnd(disk, t[k]) =
                              IF k < Len(t) THEN t[k + 1].offset ELSE Len(disk)

\* One entry of any save: its block is written at a multiple of 16, its
\* compressed bytes are followed by PadLen zero bytes, and the next block
\* starts right after them.
AlignedWrite ==
    (pc = "saving" /\ i' = i + 1)
        => LET c == U32At(disk', pointer + 32)
               from == pointer + DataHeaderSize + c
           IN  /\ pointer % BlockAlign = 0
               /\ c = Len(Compress(files[pending[i + 1]].compression_type,
                                   files[pending[i + 1]].data))
               /\ SubSeq(disk', from + 1, from + PadLen(c)) = Rep(0, PadLen(c))
               /\ pointer' = from + PadLen(c)

\* C8: every data block of a saved archive starts at a multiple of 16 and is
\* followed by exactly (16 - compressed_len mod 16) mod 16 zero bytes, so that
\* the next block starts right after the padding.
C8_Alignment == []AlignedOnDisk /\ [][AlignedWrite]_vars

\* C8 happens: a saved archive of two entries, one whose compressed length is
\* a multiple of 16 and one whose is not.
C8_Witness ==
    /\ Packed /\ pc = "idle"
    /\ Len(Table(disk)) = 2
    /\ U32At(BlockHeader(disk, Table(disk)[1]), 32) % BlockAlign = 0
    /\ U32At(BlockHeader(disk, Table(disk)[2]), 32) % BlockAlign # 0

\* C9: once save has returned, the archive is final: no later call writes to
\* the output stream.
C9_SavedIsTerminal == [][saves >= 1 => disk' = disk]_vars

\* The table of the saved archive: n descriptors, the first block right after
\* them, each size the padded compressed length plus 48, each descriptor
\* pointing at its own data header, each block starting where the one before
\* it ends and none running past the end of the file.
LayoutOnDisk ==
    (Packed /\ pc \in {"idle", "dropped"})
        => LET t == Table(disk)
               n == U32At(disk, 8)
           IN  /\ n = Len(archived.entries)
               /\ (n > 0 => t[1].offset = HeaderSize + (FileHeaderSize * n))
               /\ \A k \in DOMAIN t :
                      LET dh == BlockHeader(disk, t[k])
                          c == U32At(dh, 32)
                      IN  /\ DataHeaderCheckMagic(dh)
                          /\ c = Len(Compress(archived.entries[k].compression_type,
                                              archived.entries[k].bytes))
                          /\ t[k].file_size = (c + PadLen(c)) + DataHeaderSize
                          /\ (k < Len(t)
                                 => t[k + 1].offset = t[k].offset + t[k].file_size)
                          /\ t[k].offset + t[k].file_size <= Len(disk)

\* The bookkeeping of the first save, whatever was added and removed before
\* it: the header counts the n staged entries and the first block is put at
\* 16 + 288 n; each descriptor written records the block's offset and the
\* padded compressed length plus 48, and the next block is put that many
\* bytes further.
LayoutWrite ==
    /\ (pc = "idle" /\ pc' = "saving" /\ saves = 0)
           => /\ U32At(disk', 8) = Cardinality(DOMAIN files)
              /\ pointer' = HeaderSize + (FileHeaderSize * Cardinality(DOMAIN files))
    /\ (pc = "saving" /\ i' = i + 1 /\ saves = 0)
           => LET fh == FileHeaderOf(SubSeq(disk', owner + 1, owner + FileHeaderSize))
                  c == U32At(disk', pointer + 32)
              IN  /\ fh.offset = pointer
                  /\ fh.file_size = (c + PadLen(c)) + DataHeaderSize
                  /\ pointer' = pointer + fh.file_size

\* C10: in a saved archive of n entries the first data block starts at
\* 16 + 288 n, each stored size is the padded compressed length plus 48, each
\* next offset is the previous offset plus the previous stored size, and so
\* the blocks are disjoint and clear of the header and the table.
C10_Layout == []LayoutOnDisk /\ [][LayoutWrite]_vars

\* C10 happens: a saved archive of two entries.
C10_Witness ==
    /\ Packed /\ pc = "dropped"
    /\ Len(Table(disk)) = 2
    /\ Table(disk)[1].file_size # Table(disk)[2].file_size

\* The slot of the entry table for the k-th entry processed (0-based): its
\* first byte, and the byte after its last.
SlotStart(k) == HeaderSize + (FileHeaderSize * k)

\* The cursor discipline of one entry of save: entry i's descriptor goes to
\* its slot and is still there once its block is written; the cursor is then
\* at the next slot; the slot lies before the first data block and the block
\* lies after the table.
CursorStep ==
    (pc = "saving" /\ i' = i + 1)
        => LET n == Cardinality(DOMAIN files)
               fh == FileHeaderOf(SubSeq(disk', SlotStart(i) + 1, SlotStart(i + 1)))
           IN  /\ owner = SlotStart(i)
               /\ fh.filename = NameBytes(pending[i + 1])
               /\ fh.offset = pointer
               /\ owner' = SlotStart(i + 1)
               /\ SlotStart(i + 1) <= SlotStart(n)
               /\ pointer >= SlotStart(n)

\* C11: during save the descriptor of the i-th entry processed is written at
\* bytes [16 + 288 i, 16 + 288 (i + 1)) and the cursor is then at
\* 16 + 288 (i + 1); no descriptor lands in a data block and no data block
\* lands in the entry table.
C11_CursorDiscipline == [][CursorStep]_vars

\* The same discipline for the first save of a writer only.
CursorDisciplineFirstSave == [][saves = 0 => CursorStep]_vars

====
